---------------------------- MODULE Spec2Model ----------------------------
(***************************************************************************)
(* Model of MPC.cpp: the decision-vector layout, FG_eval::operator() and   *)
(* MPC::Solve.                                                             *)
(*                                                                         *)
(* Numbers.  A double of the evaluator is a fixed-point integer with three *)
(* decimals (1.0 is Scale).  The literals of the variable bounds are kept  *)
(* as exact decimals <<mantissa, exponent>> (value mantissa * 10^exponent) *)
(* because 1.0e19 and the six-digit steering literals do not fit the       *)
(* fixed-point range.  Vectors are functions over 0 .. n-1, as in C++; the *)
(* returned std::vector, which is only appended to, is a sequence.         *)
(*                                                                         *)
(* The definitions a_start_off1, InitialGuessWarm, PinStateNoPsi,          *)
(* PrevIdxSame and ExtractResultNextSteer are the code with one slip each; *)
(* they show that a property depends on the definition they stand next to. *)
(***************************************************************************)
EXTENDS Integers, Sequences, FiniteSets, TLC

VARIABLES N, pc, state, coeffs, vars, vars_lowerbound, vars_upperbound,
          constraints_lowerbound, constraints_upperbound,
          evalVars, fg, status, solution, result

vars_all == <<N, pc, state, coeffs, vars, vars_lowerbound, vars_upperbound,
              constraints_lowerbound, constraints_upperbound,
              evalVars, fg, status, solution, result>>

(***************************************************************************)
(* Bounds of the model.                                                    *)
(***************************************************************************)
MinN == 2
MaxN == 3

(***************************************************************************)
(* Arithmetic.                                                             *)
(***************************************************************************)
Scale == 10^3

\* floor(a*b/Scale), split so that no intermediate product leaves 32 bits
Mul(a, b) == ((a \div Scale) * b) + (((a % Scale) * b) \div Scale)
Div(a, b) == (a * Scale) \div b

Pow10(k) == 10^k
Dec(m, e) == <<m, e>>
DecMul(a, b) == <<a[1] * b[1], a[2] + b[2]>>
DecNeg(a) == <<0 - a[1], a[2]>>
\* numeric comparison of two decimals, after aligning the exponents
DecAlign(a, e) == a[1] * Pow10(a[2] - e)
DecMinExp(a, b) == IF a[2] < b[2] THEN a[2] ELSE b[2]
DecEq(a, b) == DecAlign(a, DecMinExp(a, b)) = DecAlign(b, DecMinExp(a, b))
DecLeq(a, b) == DecAlign(a, DecMinExp(a, b)) <= DecAlign(b, DecMinExp(a, b))
\* a C++ vector (indices from 0) with the given elements
Vec(s) == [i \in 0 .. Len(s) - 1 |-> s[i + 1]]
NoVec == <<>>
\* the fixed-point value of a decimal with at most three decimals
Fx(d) == IF d[2] >= 0 THEN d[1] * Pow10(d[2]) * Scale
                      ELSE (d[1] * Scale) \div Pow10(0 - d[2])

(***************************************************************************)
(* Configuration (MPC.cpp:14-41).                                          *)
(***************************************************************************)
N_default == 10
dt == Dec(1, -1)
Lf == Dec(267, -2)
ref_v == Dec(120, 0)

x_start(n) == 0
y_start(n) == x_start(n) + n
psi_start(n) == y_start(n) + n
v_start(n) == psi_start(n) + n
cte_start(n) == v_start(n) + n
epsi_start(n) == cte_start(n) + n
delta_start(n) == epsi_start(n) + n
a_start_off1(n) == delta_start(n) + n
a_start(n) == delta_start(n) + n - 1

n_vars(n) == n * 6 + (n - 1) * 2
n_constraints(n) == n * 6

StateStarts(n) == <<x_start(n), y_start(n), psi_start(n), v_start(n),
                    cte_start(n), epsi_start(n)>>

(***************************************************************************)
(* MPC::Solve, up to the call of the solver (MPC.cpp:106-171).             *)
(***************************************************************************)
InitialGuessWarm(n) ==
    [i \in 0 .. n_vars(n) - 1 |->
        IF result # <<>> /\ i = delta_start(n) THEN result[1]
        ELSE IF result # <<>> /\ i = a_start(n) THEN result[2] ELSE 0]
InitialGuess(n) == [i \in 0 .. n_vars(n) - 1 |-> 0]

steer_lower == DecMul(Dec(-436332, -6), Lf)
steer_upper == DecMul(Dec(43632, -5), Lf)

VarsLowerBound(n) ==
    [i \in 0 .. n_vars(n) - 1 |->
        IF i < delta_start(n) THEN Dec(-1, 19)
        ELSE IF i < a_start(n) THEN steer_lower
        ELSE Dec(-1, 0)]
VarsUpperBound(n) ==
    [i \in 0 .. n_vars(n) - 1 |->
        IF i < delta_start(n) THEN Dec(1, 19)
        ELSE IF i < a_start(n) THEN steer_upper
        ELSE Dec(1, 0)]

PinStateNoPsi(b, n, st) ==
    [b EXCEPT ![x_start(n)] = st[0], ![y_start(n)] = st[1],
              ![v_start(n)] = st[3],
              ![cte_start(n)] = st[4], ![epsi_start(n)] = st[5]]
\* the six assignments that follow the zeroing loop
PinState(b, n, st) ==
    [b EXCEPT ![x_start(n)] = st[0], ![y_start(n)] = st[1],
              ![psi_start(n)] = st[2], ![v_start(n)] = st[3],
              ![cte_start(n)] = st[4], ![epsi_start(n)] = st[5]]
ZeroConstraints(n) == [i \in 0 .. n_constraints(n) - 1 |-> 0]
ConstraintsLowerBound(n, st) == PinState(ZeroConstraints(n), n, st)
ConstraintsUpperBound(n, st) == PinState(ZeroConstraints(n), n, st)

(***************************************************************************)
(* CppAD::sin, CppAD::cos, CppAD::atan and pow on fixed-point numbers.     *)
(***************************************************************************)
Pi == (31416 * Scale) \div 10^4
HalfPi == Pi \div 2
TwoPi == 2 * Pi
Wrap(a) == IF (a % TwoPi) > Pi THEN (a % TwoPi) - TwoPi ELSE (a % TwoPi)
Fold(r) == IF r > HalfPi THEN Pi - r ELSE IF r < 0 - HalfPi THEN 0 - Pi - r ELSE r
SinTaylor(q) ==
    LET q2 == Mul(q, q)
        q3 == Mul(q2, q)
        q5 == Mul(Mul(q3, q), q)
        q7 == Mul(Mul(q5, q), q)
    IN  q - (q3 \div 6) + (q5 \div 120) - (q7 \div 5040)
Sin(a) == SinTaylor(Fold(Wrap(a)))
Cos(a) == Sin(a + HalfPi)
AtanK == Fx(Dec(28, -2))
Atan(x) ==
    IF x <= Scale /\ 0 - x <= Scale
    THEN Div(x, Scale + Mul(AtanK, Mul(x, x)))
    ELSE (IF x > 0 THEN HalfPi ELSE 0 - HalfPi) - Div(x, Mul(x, x) + AtanK)
Pow(x, k) == IF k = 2 THEN Mul(x, x) ELSE Mul(Mul(x, x), x)

(***************************************************************************)
(* FG_eval::operator() (MPC.cpp:50-97).                                    *)
(***************************************************************************)
cte_cost_weight == 2000
epsi_cost_weight == 2000
v_cost_weight == 1
delta_cost_weight == 10
a_cost_weight == 10
delta_change_cost_weight == 100
a_change_cost_weight == 10

\* block_start + t - 1 in size_t arithmetic: for block_start = 0 and t = 0 the
\* C++ value is 2^64 - 1, written -1 here; either is outside 0 .. n_vars-1.
PrevIdxSame(b, t) == b + t
PrevIdx(b, t) == b + t - 1
\* vars[i]; an index outside the vector reads whatever the build finds there
Rd(v, i, g) == IF i \in DOMAIN v THEN v[i] ELSE g

\* the residual of state dimension k (1 = x .. 6 = epsi) the loop body
\* computes at step t
Residual(n, v, cf, g, k, t) ==
    LET x1 == v[x_start(n) + t]
        y1 == v[y_start(n) + t]
        psi1 == v[psi_start(n) + t]
        v1 == v[v_start(n) + t]
        cte1 == v[cte_start(n) + t]
        epsi1 == v[epsi_start(n) + t]
        x0 == Rd(v, PrevIdx(x_start(n), t), g)
        y0 == Rd(v, PrevIdx(y_start(n), t), g)
        psi0 == Rd(v, PrevIdx(psi_start(n), t), g)
        v0 == Rd(v, PrevIdx(v_start(n), t), g)
        cte0 == Rd(v, PrevIdx(cte_start(n), t), g)
        epsi0 == Rd(v, PrevIdx(epsi_start(n), t), g)
        delta0 == Rd(v, PrevIdx(delta_start(n), t), g)
        a0 == Rd(v, PrevIdx(a_start(n), t), g)
        f0 == cf[0] + Mul(cf[1], x0) + Mul(cf[2], Pow(x0, 2))
                    + Mul(cf[3], Pow(x0, 3))
        psi_des0 == Atan(cf[1] + Mul(2 * cf[2], x0)
                               + Mul(3 * cf[3], Pow(x0, 2)))
    IN  CASE k = 1 -> x1 - (x0 + Mul(Mul(v0, Cos(psi0)), Fx(dt)))
          [] k = 2 -> y1 - (y0 + Mul(Mul(v0, Sin(psi0)), Fx(dt)))
          [] k = 3 -> psi1 - (psi0 - Mul(Div(Mul(v0, delta0), Fx(Lf)), Fx(dt)))
          [] k = 4 -> v1 - (v0 + Mul(a0, Fx(dt)))
          [] k = 5 -> cte1 - ((f0 - y0) + Mul(Mul(v0, Sin(epsi0)), Fx(dt)))
          [] k = 6 -> epsi1 - ((psi0 - psi_des0)
                               - Mul(Div(Mul(v0, delta0), Fx(Lf)), Fx(dt)))

\* the (dimension, step) whose assignment writes slot j of fg
SlotOf(n, j) ==
    CHOOSE p \in (1 .. 6) \X (0 .. n - 1) : 1 + StateStarts(n)[p[1]] + p[2] = j

\* fg after the call: fg[0] = 0 and one residual per dimension and step
FG(n, v, cf, g) ==
    [j \in 0 .. n_constraints(n) |->
        IF j = 0 THEN 0
        ELSE LET p == SlotOf(n, j) IN Residual(n, v, cf, g, p[1], p[2])]

(***************************************************************************)
(* MPC::Solve, after the solver returns (MPC.cpp:196-213).                 *)
(***************************************************************************)
RECURSIVE PushPairs(_, _, _)
PushPairs(n, sol, i) ==
    IF i < n - 2
    THEN <<sol[x_start(n) + i + 1], sol[y_start(n) + i + 1]>>
         \o PushPairs(n, sol, i + 1)
    ELSE <<>>
ExtractResultNextSteer(n, sol) ==
    <<sol[delta_start(n)], sol[delta_start(n) + 1]>> \o PushPairs(n, sol, 0)
ExtractResult(n, sol) ==
    <<sol[delta_start(n)], sol[a_start(n)]>> \o PushPairs(n, sol, 0)

(***************************************************************************)
(* Inputs.  The callers' State and coefficients, the points at which the   *)
(* solver evaluates fg_eval, and the solver's answers.                     *)
(***************************************************************************)
Horizons == (MinN .. MaxN) \cup {N_default}

States ==
    { Vec(<<0, 0, 0, 0, 0, 0>>),
      Vec(<<Scale, 0 - Scale, 0, 0, 0, 0>>),
      Vec(<<Scale, 0, 0, 0, 0 - Scale, 0>>),
      Vec(<<0, 0, Scale \div 10, 5 * Scale, 0, 0>>),
      Vec(<<Scale, 0 - Scale, 0 - (Scale \div 5), 5 * Scale, Scale,
            Scale \div 10>>) }

CoeffSet ==
    { Vec(<<0, 0, 0, 0>>),
      Vec(<<Scale \div 2, Scale \div 10, Scale \div 50, Scale \div 1000>>) }

\* constant steering and acceleration along the horizon
Acts == { <<0, 0>>, <<Scale \div 5, Scale \div 2>> }

\* what a read before the start of the vector may find
Garbage == {0, Scale}

\* the Kinematic Model as documented (x' = x + v cos(psi) dt, ...): the
\* state one step after s = <<x, y, psi, v, cte, epsi>> under steering d and
\* acceleration a.  It is written down independently of Residual; the
\* evaluation points are built with it and C9 compares Residual to it.
KinematicModel(s, d, a, cf) ==
    LET f == cf[0] + Mul(cf[1], s[1]) + Mul(cf[2], Mul(s[1], s[1]))
                   + Mul(cf[3], Mul(Mul(s[1], s[1]), s[1]))
        fprime == cf[1] + Mul(2 * cf[2], s[1])
                        + Mul(3 * cf[3], Mul(s[1], s[1]))
        turn == Mul(Div(Mul(s[4], d), Fx(Lf)), Fx(dt))
    IN  << s[1] + Mul(Mul(s[4], Cos(s[3])), Fx(dt)),
           s[2] + Mul(Mul(s[4], Sin(s[3])), Fx(dt)),
           s[3] - turn,
           s[4] + Mul(a, Fx(dt)),
           (f - s[2]) + Mul(Mul(s[4], Sin(s[6])), Fx(dt)),
           (s[3] - Atan(fprime)) - turn >>

RECURSIVE Traj(_, _, _, _)
Traj(n, tr, act, cf) ==
    IF Len(tr) >= n THEN tr
    ELSE Traj(n, Append(tr, KinematicModel(tr[Len(tr)], act[1], act[2], cf)),
              act, cf)

\* the decision vector that rolls the Kinematic Model out from z0
Rollout(n, z0, act, cf) ==
    LET tr == Traj(n, << <<z0[0], z0[1], z0[2], z0[3], z0[4], z0[5]>> >>,
                   act, cf)
    IN  [i \in 0 .. n_vars(n) - 1 |->
            IF i < delta_start(n) THEN tr[(i % n) + 1][(i \div n) + 1]
            ELSE IF i < a_start(n) THEN act[1] ELSE act[2]]

\* a point off the rollout: one speed entry moved
Bump(v, n, b) ==
    IF b THEN [v EXCEPT ![v_start(n) + 1] = @ + Scale] ELSE v

Candidates(n, cf) ==
    { Bump(Rollout(n, z0, act, cf), n, b) :
          z0 \in States, act \in Acts, b \in BOOLEAN }

Statuses ==
    { "success", "maxiter_exceeded", "local_infeasibility",
      "invalid_number_detected" }

Solutions(n) ==
    { [i \in 0 .. n_vars(n) - 1 |-> i + 1],
      [i \in 0 .. n_vars(n) - 1 |-> 3 * Scale] }

(***************************************************************************)
(* The state machine.                                                      *)
(***************************************************************************)
Init ==
    /\ N \in Horizons
    /\ pc = "idle"
    /\ state = NoVec
    /\ coeffs = NoVec
    /\ vars = NoVec
    /\ vars_lowerbound = NoVec
    /\ vars_upperbound = NoVec
    /\ constraints_lowerbound = NoVec
    /\ constraints_upperbound = NoVec
    /\ evalVars = NoVec
    /\ fg = NoVec
    /\ status = "not_defined"
    /\ solution = NoVec
    /\ result = <<>>

\* MPC::Solve from its entry to the call of CppAD::ipopt::solve
SolveBegin ==
    /\ pc = "idle"
    /\ \E st \in States, cf \in CoeffSet :
          /\ state' = st
          /\ coeffs' = cf
          /\ constraints_lowerbound' = ConstraintsLowerBound(N, st)
          /\ constraints_upperbound' = ConstraintsUpperBound(N, st)
    /\ vars' = InitialGuess(N)
    /\ vars_lowerbound' = VarsLowerBound(N)
    /\ vars_upperbound' = VarsUpperBound(N)
    /\ evalVars' = NoVec
    /\ fg' = NoVec
    /\ status' = "not_defined"
    /\ solution' = NoVec
    /\ pc' = "solving"
    /\ UNCHANGED <<N, result>>

\* the solver calls fg_eval at a point of its choice; the read of index
\* x_start - 1 at t = 0 finds g.  fg_eval keeps nothing between calls, so
\* the first call of an invocation reaches every state a later call could
\* reach, and only the first call is explored.
Eval ==
    /\ pc = "solving"
    /\ fg = NoVec
    /\ \E c \in Candidates(N, coeffs) \cup {vars}, g \in Garbage :
          /\ evalVars' = c
          /\ fg' = FG(N, c, coeffs, g)
    /\ UNCHANGED <<N, pc, state, coeffs, vars, vars_lowerbound,
                   vars_upperbound, constraints_lowerbound,
                   constraints_upperbound, status, solution, result>>

\* the same call in a build whose CppAD::vector checks its index
EvalAbort ==
    /\ pc = "solving"
    /\ pc' = "aborted"
    /\ UNCHANGED <<N, state, coeffs, vars, vars_lowerbound, vars_upperbound,
                   constraints_lowerbound, constraints_upperbound,
                   evalVars, fg, status, solution, result>>

\* the solver returns and MPC::Solve builds its result; the locals of the
\* invocation end with it
SolveEnd ==
    /\ pc = "solving"
    /\ \E s \in Statuses, sol \in Solutions(N) :
          /\ status' = s
          /\ solution' = sol
          /\ result' = ExtractResult(N, sol)
    /\ state' = NoVec
    /\ coeffs' = NoVec
    /\ vars' = NoVec
    /\ vars_lowerbound' = NoVec
    /\ vars_upperbound' = NoVec
    /\ constraints_lowerbound' = NoVec
    /\ constraints_upperbound' = NoVec
    /\ evalVars' = NoVec
    /\ fg' = NoVec
    /\ pc' = "idle"
    /\ UNCHANGED N

Next == SolveBegin \/ Eval \/ EvalAbort \/ SolveEnd

Spec == Init /\ [][Next]_vars_all

(***************************************************************************)
(* Properties.                                                             *)
(***************************************************************************)
Evaluated == pc = "solving" /\ fg # NoVec
Abs(a) == IF a < 0 THEN 0 - a ELSE a

\* the six state entries of a decision vector at step t
StateAt(n, v, t) ==
    <<v[x_start(n) + t], v[y_start(n) + t], v[psi_start(n) + t],
      v[v_start(n) + t], v[cte_start(n) + t], v[epsi_start(n) + t]>>

\* every residual lies between the bounds MPC::Solve built for its slot
Feasible ==
    \A i \in 0 .. n_constraints(N) - 1 :
        /\ constraints_lowerbound[i] <= fg[i + 1]
        /\ fg[i + 1] <= constraints_upperbound[i]

\* C1: a decision vector whose residuals satisfy all the constraint bounds
\* of the invocation has, at step 0 of its six state blocks, the six values
\* of the input State.
C1_FeasibleIsPinned ==
    (Evaluated /\ Feasible) =>
        \A k \in 1 .. 6 : evalVars[StateStarts(N)[k]] = state[k - 1]

Sq(a) == Mul(a, a)
RECURSIVE SumOver(_, _, _)
SumOver(f, lo, hi) == IF lo > hi THEN 0 ELSE f[lo] + SumOver(f, lo + 1, hi)
\* the weighted sum of quadratic penalties the cost is documented to be
WeightedCost(n, v) ==
    SumOver([t \in 0 .. n - 1 |->
                cte_cost_weight * Sq(v[cte_start(n) + t])
                + epsi_cost_weight * Sq(v[epsi_start(n) + t])
                + v_cost_weight * Sq(v[v_start(n) + t] - Fx(ref_v))],
            0, n - 1)
    + SumOver([t \in 0 .. n - 2 |->
                delta_cost_weight * Sq(v[delta_start(n) + t])
                + a_cost_weight * Sq(v[a_start(n) + t])],
            0, n - 2)
    + SumOver([t \in 0 .. n - 3 |->
                delta_change_cost_weight
                    * Sq(v[delta_start(n) + t + 1] - v[delta_start(n) + t])
                + a_change_cost_weight
                    * Sq(v[a_start(n) + t + 1] - v[a_start(n) + t])],
            0, n - 3)

\* C2: the cost fg[0] of an evaluated decision vector is the weighted sum of
\* the quadratic penalties on cte, epsi, v - ref_v, the actuations and the
\* changes of the actuations, the cte and epsi weights being the largest.
C2_CostIsWeightedSum ==
    Evaluated =>
        /\ fg[0] = WeightedCost(N, evalVars)
        /\ \A w \in {v_cost_weight, delta_cost_weight, a_cost_weight,
                      delta_change_cost_weight, a_change_cost_weight} :
               w <= cte_cost_weight /\ w <= epsi_cost_weight

\* 25 degrees in radians, scaled by Lf
SteerLimit == DecMul(Dec(4363323, -7), Lf)

\* C3: the bounds of every steering entry are exact negatives of each other
\* and within the physical steering limit scaled by Lf, and the bounds of
\* every acceleration entry are exactly -1 and 1.
C3_ActuatorBounds ==
    pc = "solving" =>
        /\ \A i \in delta_start(N) .. a_start(N) - 1 :
              /\ DecEq(DecNeg(vars_lowerbound[i]), vars_upperbound[i])
              /\ DecLeq(vars_upperbound[i], SteerLimit)
              /\ DecLeq(DecNeg(SteerLimit), vars_lowerbound[i])
        /\ \A i \in a_start(N) .. n_vars(N) - 1 :
              /\ DecEq(vars_lowerbound[i], Dec(-1, 0))
              /\ DecEq(vars_upperbound[i], Dec(1, 0))

Returned == pc = "idle" /\ status # "not_defined"

\* C4: when the solver ends with a status other than success, what
\* MPC::Solve returns differs from what it returns for the same solver
\* answer on success, or is the safe default of zero actuation.
C4_FailureIsSurfaced ==
    (Returned /\ status # "success") =>
        \/ result # ExtractResult(N, solution)
        \/ (result[1] = 0 /\ result[2] = 0)

\* C5: lower = upper in all N*6 constraint slots; the value is 0 except in
\* the step-0 slot of each state block, which holds the State's value of
\* that dimension.
C5_ConstraintBounds ==
    pc = "solving" =>
        /\ DOMAIN constraints_lowerbound = 0 .. N * 6 - 1
        /\ DOMAIN constraints_upperbound = 0 .. N * 6 - 1
        /\ \A i \in 0 .. N * 6 - 1 :
              /\ constraints_lowerbound[i] = constraints_upperbound[i]
              /\ \A k \in 1 .. 6 :
                    i = StateStarts(N)[k] =>
                        constraints_lowerbound[i] = state[k - 1]
              /\ (\A k \in 1 .. 6 : i # StateStarts(N)[k]) =>
                    constraints_lowerbound[i] = 0
C5_Witness ==
    /\ pc = "solving"
    /\ N = N_default
    /\ \A k \in {0, 1, 2, 3, 4, 5} : state[k] # 0

BlockStarts(n) == StateStarts(n) \o <<delta_start(n), a_start(n)>>
BlockLens(n) == <<n, n, n, n, n, n, n - 1, n - 1>>
\* the block an index of the decision vector lies in
BlockOf(n, i) ==
    CHOOSE k \in 1 .. 8 :
        BlockStarts(n)[k] <= i /\ i < BlockStarts(n)[k] + BlockLens(n)[k]

\* C6: the decision vector has N*6 + (N-1)*2 entries; the eight offsets
\* split its index range into six state blocks of length N and two
\* actuation blocks of length N-1, in this order, without gap or overlap;
\* the bounds MPC::Solve sets and the slots FG_eval writes follow them.
C6_Layout ==
    pc = "solving" =>
        /\ DOMAIN vars = 0 .. (N * 6 + (N - 1) * 2) - 1
        /\ DOMAIN vars_lowerbound = DOMAIN vars
        /\ DOMAIN vars_upperbound = DOMAIN vars
        /\ BlockStarts(N)[1] = 0
        /\ \A k \in 1 .. 7 :
              BlockStarts(N)[k + 1] = BlockStarts(N)[k] + BlockLens(N)[k]
        /\ BlockStarts(N)[8] + BlockLens(N)[8] = Cardinality(DOMAIN vars)
        /\ \A i \in DOMAIN vars :
              /\ Cardinality({k \in 1 .. 8 :
                      BlockStarts(N)[k] <= i
                      /\ i < BlockStarts(N)[k] + BlockLens(N)[k]}) = 1
              /\ BlockOf(N, i) <= 6 =>
                    /\ vars_lowerbound[i] = Dec(-1, 19)
                    /\ vars_upperbound[i] = Dec(1, 19)
              /\ BlockOf(N, i) = 7 =>
                    /\ vars_lowerbound[i] = steer_lower
                    /\ vars_upperbound[i] = steer_upper
              /\ BlockOf(N, i) = 8 =>
                    /\ vars_lowerbound[i] = Dec(-1, 0)
                    /\ vars_upperbound[i] = Dec(1, 0)
        /\ fg # NoVec => DOMAIN fg = 0 .. N * 6
C6_Witness == Evaluated /\ N = N_default

Injective(f) == \A i, j \in DOMAIN f : f[i] = f[j] => i = j
Range(q) == {q[i] : i \in DOMAIN q}

\* C7: on success the result holds the first steering, the first
\* acceleration, then the (x, y) pairs of steps 1 .. N-2 in step order, and
\* so 2 + 2*(N-2) elements; no other actuation entry of the solution is in
\* it.
C7_ResultOnSuccess ==
    (Returned /\ status = "success") =>
        /\ Len(result) = 2 + 2 * (N - 2)
        /\ result[1] = solution[delta_start(N)]
        /\ result[2] = solution[a_start(N)]
        /\ \A t \in 1 .. N - 2 :
              /\ result[2 * t + 1] = solution[x_start(N) + t]
              /\ result[2 * t + 2] = solution[y_start(N) + t]
        /\ Injective(solution) =>
              \A i \in delta_start(N) .. n_vars(N) - 1 :
                  (i # delta_start(N) /\ i # a_start(N)) =>
                      solution[i] \notin Range(result)
C7_Witness ==
    /\ Returned
    /\ status = "success"
    /\ N = N_default
    /\ Injective(solution)

\* C8: no step changes N, and whatever earlier invocations returned, an
\* invocation that reaches the solver hands it an initial guess of zeros
\* and bounds that are those of its own State.
C8_Stateless ==
    [][ /\ N' = N
        /\ pc' = "solving" =>
              /\ vars' = [i \in 0 .. (N * 6 + (N - 1) * 2) - 1 |-> 0]
              /\ \A k \in 1 .. 6 :
                    /\ constraints_lowerbound'[StateStarts(N)[k]]
                           = state'[k - 1]
                    /\ constraints_upperbound'[StateStarts(N)[k]]
                           = state'[k - 1]
              /\ vars_lowerbound' = VarsLowerBound(N)
              /\ vars_upperbound' = VarsUpperBound(N) ]_vars_all
\* a second invocation, after one that returned non-zero actuations
C8_Witness ==
    /\ pc = "solving"
    /\ result # <<>>
    /\ result[1] # 0
    /\ result[2] # 0

\* the decision vector obeys the Kinematic Model at every step after step 0
IsRollout(n, v, cf) ==
    \A t \in 1 .. n - 1 :
        StateAt(n, v, t)
          = KinematicModel(StateAt(n, v, t - 1), v[delta_start(n) + t - 1],
                           v[a_start(n) + t - 1], cf)

\* C9: for t in 1 .. N-1 the residual in slot 1 + block_start + t is the
\* decided state at t minus the Kinematic Model applied to the decided
\* state and actuation at t-1; on an exact rollout these residuals are 0.
C9_DynamicsResiduals ==
    Evaluated =>
        /\ \A t \in 1 .. N - 1 : \A k \in 1 .. 6 :
              fg[1 + StateStarts(N)[k] + t]
                = StateAt(N, evalVars, t)[k]
                  - KinematicModel(StateAt(N, evalVars, t - 1),
                                   evalVars[delta_start(N) + t - 1],
                                   evalVars[a_start(N) + t - 1], coeffs)[k]
        /\ IsRollout(N, evalVars, coeffs) =>
              \A t \in 1 .. N - 1 : \A k \in 1 .. 6 :
                  fg[1 + StateStarts(N)[k] + t] = 0
\* an exact rollout that turns and accelerates along a curved reference
C9_Witness ==
    /\ Evaluated
    /\ N = N_default
    /\ coeffs[3] # 0
    /\ evalVars[delta_start(N)] # 0
    /\ evalVars[a_start(N)] # 0
    /\ evalVars[psi_start(N) + 1] # evalVars[psi_start(N)]
    /\ IsRollout(N, evalVars, coeffs)
    /\ \A t \in 1 .. N - 1 : \A k \in 1 .. 6 :
          fg[1 + StateStarts(N)[k] + t] = 0

\* C10: at t = 0 the index one step before index 0 of each of the eight
\* blocks is index 0 of that block, an index of the decision vector.
C10_FirstStepReadsOwnBlock ==
    Evaluated =>
        \A k \in 1 .. 8 :
            /\ PrevIdx(BlockStarts(N)[k], 0) = BlockStarts(N)[k]
            /\ PrevIdx(BlockStarts(N)[k], 0) \in DOMAIN evalVars

=============================================================================
